---------------------------- MODULE Spec2Model ----------------------------
(***************************************************************************)
(* A model of the dialogue-script interpreter: the text-script compiler    *)
(* (get_jsonScript.py), the step graph (Ast1.py), the persistence          *)
(* component (data_api.py), the intent classifier wrapper (modelAPI.py)    *)
(* and the execution engine (ScriptInterpreter.run).                       *)
(*                                                                         *)
(* Representation.                                                         *)
(*  - A Python string that the program takes apart is a sequence of text   *)
(*    tokens: a literal chunk, a "${name}" placeholder, or a "$name"       *)
(*    reference written in the text.                                       *)
(*  - A Python value is a record [t, n, s]: an int, a str or None.         *)
(*  - A Python dict is the sequence of its items in insertion order.       *)
(*  - None as a step name or an intent is the string NONE.                 *)
(***************************************************************************)
EXTENDS Integers, Sequences, FiniteSets, TLC

VARIABLES
    script,          \* the text script: the sequence of its lines
    nodes,           \* ASTree1.nodes: the items (step name, node) in insertion order
    possible_intents,\* ScriptInterpreter.possible_intents
    file,            \* the user data file: [exists, data]
    data_buffer,     \* ASTree1.data_buffer
    input_buffer,    \* ASTree1.input_buffer
    pc,              \* where the host / run() stands
    current_step,    \* run(): current_step
    next_step,       \* run(): next_step
    ip,              \* run(): index of the next action of the for loop
    emitted,         \* the texts printed by the Speak actions, in order
    reason,          \* how run() ended
    visits,          \* number of loop iterations of run() so far
    trace,           \* the indices of the actions executed in the current visit
    last,            \* what the last step of the interpreter did
    committed,       \* the fields written by Upgrade actions, with their values
    saved,           \* save_user_data was invoked by run()
    call,            \* a call of a pure function: its arguments and its result
    visited,         \* the names of the steps run() has entered, in order
    sessions,        \* two interpreters on one script: the state of each
    json_file        \* the JSON file text_script_to_json_file writes: [state, steps]

vars == <<script, nodes, possible_intents, file, data_buffer, input_buffer, pc,
          current_step, next_step, ip, emitted, reason, visits, trace, last,
          committed, saved, call, visited, sessions, json_file>>

NONE == "None"

\* the literal label "意图识别失败" (intent recognition failed)
IntentFail == "intent_recognition_failed"

-----------------------------------------------------------------------------
(* Bounds *)

MaxActs == 2        \* actions in the generated welcome step
MaxVisits == 4      \* loop iterations of run() that are explored
MaxIfs == 2         \* If lines in a generated step of the guard scripts
MaxLines == 5       \* lines of a source text given to the compiler alone

-----------------------------------------------------------------------------
(* Values and text *)

IntV(n) == [t |-> "int", n |-> n, s |-> <<>>]
StrV(s) == [t |-> "str", n |-> 0, s |-> s]
NoneV == [t |-> "none", n |-> 0, s |-> <<>>]

Lit(x) == [k |-> "lit", x |-> x]
PH(x) == [k |-> "ph", x |-> x]
Dollar(x) == [k |-> "dollar", x |-> x]

\* str(v)
PyStr(v) == IF v.t = "int" THEN <<Lit(ToString(v.n))>>
            ELSE IF v.t = "none" THEN <<Lit("None")>>
            ELSE v.s

RECURSIVE ReplaceTok(_, _, _)
\* text.replace(tok, rep) where tok is one token of text
ReplaceTok(text, tok, rep) ==
    IF text = <<>> THEN <<>>
    ELSE (IF Head(text) = tok THEN rep ELSE <<Head(text)>>)
         \o ReplaceTok(Tail(text), tok, rep)

-----------------------------------------------------------------------------
(* dict *)

DKeys(d) == {d[i].k : i \in DOMAIN d}
DHas(d, k) == \E i \in DOMAIN d : d[i].k = k
DIdx(d, k) == CHOOSE i \in DOMAIN d : d[i].k = k
\* d.get(k, default)
DGet(d, k, default) == IF DHas(d, k) THEN d[DIdx(d, k)].v ELSE default
\* d[k] = v
DSet(d, k, v) == IF DHas(d, k) THEN [d EXCEPT ![DIdx(d, k)].v = v]
                 ELSE Append(d, [k |-> k, v |-> v])
RECURSIVE DUpdate(_, _)
\* d.update(other)
DUpdate(d, other) ==
    IF other = <<>> THEN d
    ELSE DUpdate(DSet(d, Head(other).k, Head(other).v), Tail(other))

-----------------------------------------------------------------------------
(* The script compiler: get_jsonScript.py *)

\* the lines of a text script, one record per directive
StepLine(name) == [d |-> "Step", name |-> name]
\* a Speak expression is the sequence of its "+"-joined items: a quoted
\* literal (q, with its text) or a bare $name reference
Quoted(text) == [q |-> TRUE, text |-> text]
Bare(name) == [q |-> FALSE, text |-> <<Dollar(name)>>]
SpeakLine(expr) == [d |-> "Speak", expr |-> expr]
ListenLine(min, max) == [d |-> "Listen", min |-> min, max |-> max]
UpgrateLine(field, value) == [d |-> "UPGRATE", field |-> field, value |-> value]
IfLine(cond, goto) == [d |-> "If", cond |-> cond, goto |-> goto]
BranchLine(key, target, quoted) ==
    [d |-> "Branch", key |-> key, target |-> target, quoted |-> quoted]
ExitLine == [d |-> "Exit"]
MiddleLine == [d |-> "Middle"]
BlankLine == [d |-> "blank"]
CommentLine == [d |-> "comment"]
OtherLine == [d |-> "other"]

RECURSIVE _expr_to_template(_)
\* re.findall(r'(\$[a-zA-Z_][\w]*)|"(.*?)"', expr): a bare $name becomes the
\* placeholder ${name}; the content of a quoted literal is copied as it is
_expr_to_template(expr) ==
    IF expr = <<>> THEN <<>>
    ELSE LET item == Head(expr)
         IN (IF item.q THEN item.text ELSE <<PH(item.text[1].x)>>)
            \o _expr_to_template(Tail(expr))

\* '+' in speak_expr or '$' in speak_expr
HasPlusOrDollar(expr) ==
    \/ Len(expr) > 1
    \/ \E i \in DOMAIN expr :
          \E j \in DOMAIN expr[i].text : expr[i].text[j].k \in {"dollar", "ph"}

speak_content(expr) ==
    IF HasPlusOrDollar(expr) THEN _expr_to_template(expr)
    ELSE expr[1].text        \* speak_expr.strip('"')

\* flush_step with a step that is already in steps kept as it is
flush_step_keep(acc) ==
    [acc EXCEPT
       !.steps = IF acc.current_step # NONE /\ ~DHas(acc.steps, acc.current_step)
                 THEN DSet(acc.steps, acc.current_step,
                           [name |-> acc.current_step,
                            actions |-> acc.actions,
                            branch |-> acc.branch,
                            ifs |-> acc.ifs])
                 ELSE acc.steps,
       !.actions = <<>>,
       !.branch = <<>>,
       !.ifs = <<>>]

\* flush_step(): acc is [steps, current_step, actions, branch, ifs]
flush_step(acc) ==
    [acc EXCEPT
       !.steps = IF acc.current_step # NONE
                 THEN DSet(acc.steps, acc.current_step,
                           [name |-> acc.current_step,
                            actions |-> acc.actions,
                            branch |-> acc.branch,
                            ifs |-> acc.ifs])
                 ELSE acc.steps,
       !.actions = <<>>,
       !.branch = <<>>,
       !.ifs = <<>>]

\* the body of the for loop of parse_text_script, for one line
parse_line(acc, line) ==
    CASE line.d \in {"blank", "comment"} -> acc
      [] line.d = "Step" ->
            [flush_step(acc) EXCEPT !.current_step = line.name]
      [] line.d = "Speak" ->
            [acc EXCEPT !.actions =
                Append(@, [type |-> "speak", content |-> speak_content(line.expr)])]
      [] line.d = "Listen" ->
            [acc EXCEPT !.actions =
                Append(@, [type |-> "listen", min |-> line.min, max |-> line.max])]
      [] line.d = "UPGRATE" ->
            [acc EXCEPT !.actions =
                Append(@, [type |-> "upgrate", field |-> line.field,
                           value |-> StrV(line.value)])]
      [] line.d = "If" ->
            [acc EXCEPT !.ifs =
                Append(@, [condition |-> line.cond, goto |-> line.goto])]
      [] line.d = "Branch" ->
            [acc EXCEPT !.branch = DSet(@, line.key, line.target)]
      [] line.d = "Exit" -> [acc EXCEPT !.actions = Append(@, [type |-> "exit"])]
      [] line.d = "Middle" -> [acc EXCEPT !.actions = Append(@, [type |-> "middle"])]
      [] OTHER -> acc

RECURSIVE parse_lines(_, _)
parse_lines(acc, lines) ==
    IF lines = <<>> THEN acc
    ELSE parse_lines(parse_line(acc, Head(lines)), Tail(lines))

\* the accumulators before the first line
NoSteps == [steps |-> <<>>, current_step |-> NONE,
            actions |-> <<>>, branch |-> <<>>, ifs |-> <<>>]

\* parse_text_script without the flush_step() that follows the loop
parse_text_script_noflush(lines) == parse_lines(NoSteps, lines).steps

\* parse_text_script(text_script)["steps"]
parse_text_script(lines) ==
    flush_step(parse_lines(NoSteps, lines)).steps

\* from_json_script(text_script_to_json_file(...)).nodes: one ASTNode1 per step
from_json_script(steps) ==
    [i \in DOMAIN steps |->
        [k |-> steps[i].k,
         v |-> [name |-> steps[i].k,
                actions |-> steps[i].v.actions,
                branch |-> steps[i].v.branch,
                ifs |-> steps[i].v.ifs]]]

\* ASTree1.get_node(name); a missing node is NoNode
NoNode == [name |-> NONE, actions |-> <<>>, branch |-> <<>>, ifs |-> <<>>]
get_node(tree, name) == DGet(tree, name, NoNode)

-----------------------------------------------------------------------------
(* The intent classifier: modelAPI.py *)

\* extract_branches(script_path): the labels of the lines that hold
\* Branch "<label>", except the failure label
extract_branches(lines) ==
    {lines[i].key : i \in {j \in DOMAIN lines :
                             /\ lines[j].d = "Branch"
                             /\ lines[j].quoted
                             /\ lines[j].key # IntentFail}}

\* recognize_intent(user_input, possible_intents): the model's answer when it
\* is one of possible_intents, the failure label otherwise (also on an error)
recognize_intent(answer, intents) ==
    IF answer \in intents THEN answer ELSE IntentFail

-----------------------------------------------------------------------------
(* Guard conditions: ASTNode1.get_next_node_name *)

\* A condition is a sequence of tokens: the character "$", a chunk of a
\* name, a comparison operator, or a literal value (after the substitution
\* also the repr() of a store value).
CDollar == [k |-> "$", x |-> "", v |-> NoneV]
CChunk(x) == [k |-> "chunk", x |-> x, v |-> NoneV]
COp(x) == [k |-> "op", x |-> x, v |-> NoneV]
CVal(v) == [k |-> "val", x |-> "", v |-> v]
\* the word and between two comparisons; the call len( ) around what follows
CAnd == [k |-> "and", x |-> "", v |-> NoneV]
CLen == [k |-> "len", x |-> "", v |-> NoneV]
\* the character (
COpen == [k |-> "(", x |-> "", v |-> NoneV]

\* the characters of a variable name, in chunks: vip is a proper prefix of
\* vip_level
NameChunks(name) == IF name = "vip_level" THEN <<"vip", "_level">> ELSE <<name>>

\* the text f"${k}"
DollarName(name) ==
    <<CDollar>> \o [i \in DOMAIN NameChunks(name) |-> CChunk(NameChunks(name)[i])]

\* the text "$name <op> literal"
CondText(name, op, literal) == DollarName(name) \o <<COp(op), CVal(literal)>>

IsPrefixAt(text, pat) ==
    /\ Len(pat) <= Len(text)
    /\ \A i \in DOMAIN pat : text[i] = pat[i]

RECURSIVE ReplaceSeq(_, _, _)
\* text.replace(pat, rep), pat not empty
ReplaceSeq(text, pat, rep) ==
    IF text = <<>> THEN <<>>
    ELSE IF IsPrefixAt(text, pat)
         THEN rep \o ReplaceSeq(SubSeq(text, Len(pat) + 1, Len(text)), pat, rep)
         ELSE <<Head(text)>> \o ReplaceSeq(Tail(text), pat, rep)

RECURSIVE SubstituteVars(_, _)
\* for k, v in context.items(): expr_eval = expr_eval.replace(f"${k}", repr(v))
SubstituteVars(expr, context) ==
    IF context = <<>> THEN expr
    ELSE SubstituteVars(
             ReplaceSeq(expr, DollarName(Head(context).k), <<CVal(Head(context).v)>>),
             Tail(context))

\* the order of Python on the str literals of the model
StrRank(s) == IF s = <<>> THEN 0
              ELSE CASE s[1].x = "Li" -> 1
                     [] s[1].x = "Wu" -> 2
                     [] s[1].x = "hi" -> 3
                     [] OTHER -> 4

\* a <op> b in Python 3: "true", "false", or "error" (TypeError)
PyCompare(a, op, b) ==
    LET key(v) == IF v.t = "int" THEN v.n ELSE StrRank(v.s)
        bool(p) == IF p THEN "true" ELSE "false"
    IN CASE op = "==" -> bool(a = b)
         [] op = "!=" -> bool(a # b)
         [] a.t # b.t \/ a.t = "none" -> "error"
         [] op = ">" -> bool(key(a) > key(b))
         [] op = "<" -> bool(key(a) < key(b))
         [] op = ">=" -> bool(key(a) >= key(b))
         [] op = "<=" -> bool(key(a) <= key(b))
         [] OTHER -> "error"

\* len(v): every str literal of the model that is not empty has two
\* characters; len of an int raises TypeError
PyLen(v) == IF v.s = <<>> THEN IntV(0) ELSE IntV(2)

\* the shape of an expression: the kinds of its tokens
Kinds(expr) == [i \in DOMAIN expr |-> expr[i].k]

\* bool(eval(expr_eval)): "true", "false", or "error" (an exception)
PyEval(expr) ==
    CASE Kinds(expr) = <<"val", "op", "val">> ->
            PyCompare(expr[1].v, expr[2].x, expr[3].v)
      [] Kinds(expr) = <<"val">> ->
            (IF expr[1].v \in {IntV(0), StrV(<<>>), NoneV} THEN "false" ELSE "true")
      [] Kinds(expr) = <<"val", "op", "val", "and", "val", "op", "val">> ->
            \* a and b: b is evaluated only when a is true
            (IF PyCompare(expr[1].v, expr[2].x, expr[3].v) = "true"
             THEN PyCompare(expr[5].v, expr[6].x, expr[7].v)
             ELSE PyCompare(expr[1].v, expr[2].x, expr[3].v))
      [] Kinds(expr) = <<"len", "val", "op", "val">> ->
            \* len(a) <op> b
            (IF expr[2].v.t # "str" THEN "error"
             ELSE PyCompare(PyLen(expr[2].v), expr[3].x, expr[4].v))
      [] OTHER -> "error"      \* SyntaxError, NameError

\* the body of the try block: the condition holds
CondHolds(cond, context) == PyEval(SubstituteVars(cond.condition, context)) = "true"

\* FirstGuard with the loop not left at the first condition that holds
FirstGuard_last(ifs, context) ==
    LET hit == {i \in DOMAIN ifs : CondHolds(ifs[i], context)}
    IN IF hit = {} THEN NONE
       ELSE ifs[CHOOSE i \in hit : \A j \in hit : i >= j].goto

\* FirstGuard with the exception of a condition not caught: the loop ends at
\* the first condition that cannot be evaluated
FirstGuard_abort(ifs, context) ==
    LET hit == {i \in DOMAIN ifs : CondHolds(ifs[i], context)}
        bad == {i \in DOMAIN ifs :
                  PyEval(SubstituteVars(ifs[i].condition, context)) = "error"}
        first == CHOOSE i \in hit : \A j \in hit : i <= j
    IN IF hit = {} \/ (\E b \in bad : b < first) THEN NONE
       ELSE ifs[first].goto

\* the for loop over self.ifs: the goto of the first condition that holds
FirstGuard(ifs, context) ==
    LET hit == {i \in DOMAIN ifs : CondHolds(ifs[i], context)}
    IN IF hit = {} THEN NONE
       ELSE ifs[CHOOSE i \in hit : \A j \in hit : i <= j].goto

\* ASTNode1.get_next_node_name(intention, context)
get_next_node_name(node, intention, context) ==
    IF context # <<>> /\ node.ifs # <<>> /\ FirstGuard(node.ifs, context) # NONE
    THEN FirstGuard(node.ifs, context)
    ELSE DGet(node.branch, intention, NONE)

-----------------------------------------------------------------------------
(* The persistence component: data_api.py *)

NoFile == [exists |-> FALSE, data |-> <<>>]
FileOf(data) == [exists |-> TRUE, data |-> data]

RECURSIVE OverwriteChanged(_, _, _)
\* for k in old_data: if k in new_data and old_data[k] != new_data[k]:
\*     payload[k] = new_data[k]
OverwriteChanged(payload, old_data, new_data) ==
    IF old_data = <<>> THEN payload
    ELSE LET k == Head(old_data).k
         IN OverwriteChanged(
                IF DHas(new_data, k) /\ Head(old_data).v # DGet(new_data, k, NoneV)
                THEN DSet(payload, k, DGet(new_data, k, NoneV))
                ELSE payload,
                Tail(old_data), new_data)

\* write_buffer_to_file with the changed fields of an existing file not
\* overwritten
write_buffer_to_file_keep(f, buffer) ==
    LET payload == IF f.exists THEN f.data ELSE <<>>
    IN FileOf(IF payload = <<>> THEN DUpdate(payload, buffer) ELSE payload)

\* write_buffer_to_file with the buffer dumped as the new content of the file
write_buffer_to_file_replace(f, buffer) == FileOf(buffer)

\* DataAPI.write_buffer_to_file(tree, filename): the file afterwards
write_buffer_to_file(f, buffer) ==
    LET payload == IF f.exists THEN f.data ELSE <<>>
        merged == OverwriteChanged(payload, payload, buffer)
    IN FileOf(IF payload = <<>> THEN DUpdate(merged, buffer) ELSE merged)

\* DataAPI.read_file_to_buffer(tree, filename, merge=True): the data_buffer
\* afterwards; the call raises FileNotFoundError when the file does not exist
read_file_to_buffer(f, buffer) == DUpdate(buffer, f.data)

\* ScriptInterpreter.save_user_data(filename): [ok, file, buffer]
save_user_data(f, buffer) ==
    IF ~f.exists
    THEN [ok |-> FALSE, file |-> f, buffer |-> buffer]
    ELSE LET merged == read_file_to_buffer(f, buffer)
         IN [ok |-> TRUE, file |-> write_buffer_to_file(f, merged), buffer |-> merged]

-----------------------------------------------------------------------------
(* The scripts, user data files and inputs that are explored *)

Hello == SpeakLine(<<Quoted(<<Lit("Hello ")>>), Bare("name")>>)

\* the action directives a generated welcome step is made of
ActLines ==
    { Hello,
      ListenLine(5, 20),
      UpgrateLine("name", <<Lit("Li")>>),
      UpgrateLine("note", <<Dollar("listen_content")>>),
      MiddleLine,
      ExitLine }

SeqsUpTo(S, n) == UNION {[1..m -> S] : m \in 0..n}

\* the Branch lines of a generated welcome step
BranchLib ==
    { <<>>,
      <<BranchLine("complaint", "complainProc", TRUE)>>,
      <<BranchLine("complaint", "complainProc", TRUE),
        BranchLine(IntentFail, "middleProc", TRUE)>>,
      <<BranchLine("complaint", "billProc", TRUE)>>,
      <<BranchLine("refund", "complainProc", FALSE)>> }

\* the If lines of a generated welcome step
GuardLib ==
    { <<>>,
      <<IfLine(CondText("amount", ">", IntV(100)), "middleProc")>> }

\* the steps that follow the welcome step
Tails ==
    { << StepLine("complainProc"),
         UpgrateLine("name", <<Lit("Wu")>>),
         BranchLine("complaint", "middleProc", TRUE),
         BranchLine("bill", "welcome", TRUE),
         StepLine("middleProc"),
         ListenLine(5, 20),
         BranchLine("bill", "welcome", TRUE),
         BranchLine(IntentFail, "exit", TRUE),
         StepLine("exit"),
         SpeakLine(<<Quoted(<<Lit("Bye ")>>), Bare("name")>>),
         ExitLine >>,
      << StepLine("complainProc"),
         ListenLine(1, 2),
         UpgrateLine("note", <<Dollar("listen_content")>>),
         BranchLine("bill", "exit", TRUE),
         ExitLine,
         StepLine("exit"),
         SpeakLine(<<Quoted(<<Lit("Bye")>>)>>) >> }

\* the script of the end-to-end scenario: Speak "Hello $name", Listen 5,20,
\* Branch "complaint", complainProc
HelloScript ==
    << StepLine("welcome"),
       SpeakLine(<<Quoted(<<Lit("Hello "), Dollar("name")>>)>>),
       ListenLine(5, 20),
       BranchLine("complaint", "complainProc", TRUE) >>

\* a script that speaks a field it has taken from the user's input
EchoScript ==
    << StepLine("welcome"),
       ListenLine(5, 20),
       UpgrateLine("name", <<Dollar("listen_content")>>),
       SpeakLine(<<Quoted(<<Lit("Hello ")>>), Bare("name"),
                   Quoted(<<Lit(" ")>>), Bare("nobody")>>),
       BranchLine("complaint", "complainProc", TRUE) >>

\* a script that copies fields: from a variable, and in complainProc, a step
\* without a Listen, from the user's input
CopyScript ==
    << StepLine("welcome"),
       ListenLine(5, 20),
       UpgrateLine("note", <<Dollar("name")>>),
       BranchLine("complaint", "complainProc", TRUE),
       StepLine("complainProc"),
       UpgrateLine("who", <<Dollar("listen_content")>>) >>

\* a script of three steps in a chain: a branch, then a Middle jump
ChainScript ==
    << StepLine("welcome"),
       ListenLine(5, 20),
       BranchLine("complaint", "complainProc", TRUE),
       StepLine("complainProc"),
       MiddleLine,
       StepLine("middleProc"),
       SpeakLine(<<Quoted(<<Lit("Bye")>>)>>),
       ExitLine >>

Scripts ==
    { <<CommentLine, StepLine("welcome")>> \o a \o g \o b \o <<BlankLine>> \o t :
        a \in SeqsUpTo(ActLines, MaxActs), g \in GuardLib, b \in BranchLib, t \in Tails }
    \cup Tails
    \cup {HelloScript, EchoScript, CopyScript, ChainScript}

\* the user data file before the session
Files ==
    { NoFile,
      FileOf(<<>>),
      FileOf(<< [k |-> "name", v |-> StrV(<<Lit("Li")>>)],
                [k |-> "amount", v |-> IntV(150)] >>) }

\* what the user may type at a Listen: nothing, hi, or the text ${amount}
Inputs == { <<>>, <<Lit("hi")>>, <<PH("amount")>> }

\* what the language model may answer
Answers(intents) == intents \cup {"something else"}

-----------------------------------------------------------------------------
(* The execution engine: ScriptInterpreter *)

\* the JSON file of the script before any interpreter has written it
NoJson == [state |-> "absent", steps |-> <<>>]

NoInput == [listen_content |-> NoneV, intent |-> NONE]   \* input_buffer == {}
NoCall == [fn |-> NONE, node |-> NoNode, intention |-> NONE, context |-> <<>>,
           result |-> NONE]

Step1(op) ==
    [op |-> op, step |-> current_step, via |-> NONE, target |-> NONE,
     intent |-> NONE, listened |-> FALSE, hooks |-> 0, changed |-> FALSE]

CurNode == get_node(nodes, current_step)
Acts == CurNode.actions
InLoop == pc = "actions" /\ ip <= Len(Acts)
Running(type) == InLoop /\ Acts[ip].type = type

\* ScriptInterpreter.__init__(script_path): the state after construction
Init ==
    /\ script \in Scripts
    /\ nodes = from_json_script(parse_text_script(script))
    /\ possible_intents = extract_branches(script)
    /\ file \in Files
    /\ data_buffer = <<>>
    /\ input_buffer = NoInput
    /\ pc = "new"
    /\ current_step = NONE
    /\ next_step = NONE
    /\ ip = 0
    /\ emitted = <<>>
    /\ reason = NONE
    /\ visits = 0
    /\ trace = <<>>
    /\ last = [op |-> "init", step |-> NONE, via |-> NONE, target |-> NONE,
               intent |-> NONE, listened |-> FALSE, hooks |-> 0, changed |-> FALSE]
    /\ committed = <<>>
    /\ saved = FALSE
    /\ call = NoCall
    /\ visited = <<>>
    /\ sessions = <<>>
    /\ json_file = NoJson

\* load_user_data(user_file): a failure of the read is caught and printed
load_user_data ==
    /\ pc = "new"
    /\ data_buffer' = IF file.exists THEN read_file_to_buffer(file, data_buffer)
                      ELSE data_buffer
    /\ pc' = "loaded"
    /\ last' = Step1("load")
    /\ UNCHANGED <<script, nodes, possible_intents, file, input_buffer, current_step,
                   next_step, ip, emitted, reason, visits, trace, committed, saved,
                   call>>
    /\ UNCHANGED <<visited, sessions, json_file>>

\* run(), up to the loop: current_step = "welcome"
run_start ==
    /\ pc = "loaded"
    /\ current_step' = "welcome"
    /\ pc' = "loop"
    /\ last' = [Step1("start") EXCEPT !.step = "welcome"]
    /\ UNCHANGED <<script, nodes, possible_intents, file, data_buffer, input_buffer,
                   next_step, ip, emitted, reason, visits, trace, committed, saved,
                   call>>
    /\ UNCHANGED <<visited, sessions, json_file>>

\* the statements after the loop: self.save_user_data(self.current_user_file);
\* why is the termination reason when the save does not raise
AfterLoop(why) ==
    LET r == save_user_data(file, data_buffer)
    IN /\ saved' = TRUE
       /\ file' = r.file
       /\ data_buffer' = r.buffer
       /\ reason' = IF r.ok THEN why ELSE "FileNotFoundError"
       /\ pc' = "done"

\* the head of the while loop: the node of current_step is looked up; when
\* there is none the loop is left
enter_step ==
    /\ pc = "loop"
    /\ visits < MaxVisits
    /\ visits' = visits + 1
    /\ next_step' = NONE
    /\ trace' = <<>>
    /\ last' = Step1("enter")
    /\ IF ~DHas(nodes, current_step)
       THEN /\ AfterLoop(IF visits = 0 THEN "MissingEntryStepError"
                         ELSE "DanglingTransitionError")
            /\ UNCHANGED ip
       ELSE /\ pc' = "actions"
            /\ ip' = 1
            /\ UNCHANGED <<file, data_buffer, reason, saved>>
    /\ UNCHANGED <<script, nodes, possible_intents, input_buffer, current_step,
                   emitted, committed, call>>
    /\ visited' = IF DHas(nodes, current_step) THEN Append(visited, current_step)
                  ELSE visited
    /\ UNCHANGED <<sessions, json_file>>

RECURSIVE Substitute(_, _)
\* for k, v in data_buffer.items(): text = text.replace(f"${{{k}}}", str(v))
Substitute(text, buffer) ==
    IF buffer = <<>> THEN text
    ELSE Substitute(ReplaceTok(text, PH(Head(buffer).k), PyStr(Head(buffer).v)),
                    Tail(buffer))

\* action_type == "speak"
act_speak ==
    /\ Running("speak")
    /\ emitted' = Append(emitted, Substitute(Acts[ip].content, data_buffer))
    /\ ip' = ip + 1
    /\ trace' = Append(trace, ip)
    /\ last' = Step1("speak")
    /\ UNCHANGED <<script, nodes, possible_intents, file, data_buffer, input_buffer,
                   pc, current_step, next_step, reason, visits, committed, saved,
                   call>>
    /\ UNCHANGED <<visited, sessions, json_file>>

\* action_type == "listen": the user types user_input and the language model
\* gives answer
act_listen ==
    /\ Running("listen")
    /\ \E user_input \in Inputs, answer \in Answers(possible_intents) :
          input_buffer' = [listen_content |-> StrV(user_input),
                           intent |-> recognize_intent(answer, possible_intents)]
    /\ ip' = ip + 1
    /\ trace' = Append(trace, ip)
    /\ last' = Step1("listen")
    /\ UNCHANGED <<script, nodes, possible_intents, file, data_buffer, pc,
                   current_step, next_step, emitted, reason, visits, committed,
                   saved, call>>
    /\ UNCHANGED <<visited, sessions, json_file>>

\* value.startswith("$")
StartsWithDollar(text) == text # <<>> /\ text[1].k \in {"dollar", "ph"}
\* value[1:], when it is a name
VarName(text) == IF Len(text) = 1 /\ text[1].k = "dollar" THEN text[1].x ELSE NONE

\* the value of an upgrate action taken as it is written in the script
ResolveValue_literal(value, inbuf, buffer) == value

\* the value an upgrate action writes
ResolveValue(value, inbuf, buffer) ==
    IF value.t = "str" /\ StartsWithDollar(value.s)
    THEN IF VarName(value.s) = "listen_content"
         THEN (IF inbuf.listen_content = NoneV THEN StrV(<<>>)
               ELSE inbuf.listen_content)
         ELSE DGet(buffer, VarName(value.s), value)
    ELSE value

\* the history of the fields written by upgrate actions: p tells that the
\* file bound the field, or was missing or empty, when the field was written
Commit(log, field, value, p) ==
    SelectSeq(log, LAMBDA e : e.k # field) \o <<[k |-> field, v |-> value, p |-> p]>>

\* act_upgrate without the comparison with the current value
act_upgrate_always ==
    /\ Running("upgrate")
    /\ LET field == Acts[ip].field
           value == ResolveValue(Acts[ip].value, input_buffer, data_buffer)
       IN /\ data_buffer' = DSet(data_buffer, field, value)
          /\ file' = write_buffer_to_file(file, data_buffer')
          /\ committed' = Commit(committed, field, value,
                                 ~file.exists \/ file.data = <<>>
                                    \/ DHas(file.data, field))
          /\ last' = [Step1("upgrate") EXCEPT !.hooks = 1, !.changed = TRUE]
    /\ ip' = ip + 1
    /\ trace' = Append(trace, ip)
    /\ UNCHANGED <<script, nodes, possible_intents, input_buffer, pc, current_step,
                   next_step, emitted, reason, visits, saved, call>>
    /\ UNCHANGED <<visited, sessions, json_file>>

\* action_type == "upgrate"
act_upgrate ==
    /\ Running("upgrate")
    /\ LET field == Acts[ip].field
           value == ResolveValue(Acts[ip].value, input_buffer, data_buffer)
       IN IF DGet(data_buffer, field, NoneV) # value
          THEN /\ data_buffer' = DSet(data_buffer, field, value)
               /\ file' = write_buffer_to_file(file, data_buffer')
               /\ committed' = Commit(committed, field, value,
                                      ~file.exists \/ file.data = <<>>
                                         \/ DHas(file.data, field))
               /\ last' = [Step1("upgrate") EXCEPT !.hooks = 1, !.changed = TRUE]
          ELSE /\ UNCHANGED <<data_buffer, file, committed>>
               /\ last' = Step1("upgrate")
    /\ ip' = ip + 1
    /\ trace' = Append(trace, ip)
    /\ UNCHANGED <<script, nodes, possible_intents, input_buffer, pc, current_step,
                   next_step, emitted, reason, visits, saved, call>>
    /\ UNCHANGED <<visited, sessions, json_file>>

\* act_middle without the break: the for loop goes on
act_middle_continue ==
    /\ Running("middle")
    /\ next_step' = "middleProc"
    /\ ip' = ip + 1
    /\ trace' = Append(trace, ip)
    /\ last' = Step1("middle")
    /\ UNCHANGED <<script, nodes, possible_intents, file, data_buffer, input_buffer,
                   pc, current_step, emitted, reason, visits, committed, saved, call>>
    /\ UNCHANGED <<visited, sessions, json_file>>

\* act_middle without the assignment: the for loop is left, next_step is not set
act_middle_unset ==
    /\ Running("middle")
    /\ pc' = "resolve"
    /\ trace' = Append(trace, ip)
    /\ last' = Step1("middle")
    /\ UNCHANGED <<script, nodes, possible_intents, file, data_buffer, input_buffer,
                   current_step, next_step, ip, emitted, reason, visits, committed,
                   saved, call>>
    /\ UNCHANGED <<visited, sessions, json_file>>

\* action_type == "middle": next_step = "middleProc"; break
act_middle ==
    /\ Running("middle")
    /\ next_step' = "middleProc"
    /\ pc' = "resolve"
    /\ trace' = Append(trace, ip)
    /\ last' = Step1("middle")
    /\ UNCHANGED <<script, nodes, possible_intents, file, data_buffer, input_buffer,
                   current_step, ip, emitted, reason, visits, committed, saved, call>>
    /\ UNCHANGED <<visited, sessions, json_file>>

\* act_exit without the return: the while loop goes on with the same step
act_exit_again ==
    /\ Running("exit")
    /\ pc' = "loop"
    /\ trace' = Append(trace, ip)
    /\ last' = Step1("exit")
    /\ UNCHANGED <<script, nodes, possible_intents, file, data_buffer, input_buffer,
                   current_step, next_step, ip, emitted, reason, visits, committed,
                   saved, call>>
    /\ UNCHANGED <<visited, sessions, json_file>>

\* action_type == "exit": print("对话结束"); return
act_exit ==
    /\ Running("exit")
    /\ pc' = "done"
    /\ reason' = "Normal"
    /\ trace' = Append(trace, ip)
    /\ last' = Step1("exit")
    /\ UNCHANGED <<script, nodes, possible_intents, file, data_buffer, input_buffer,
                   current_step, next_step, ip, emitted, visits, committed, saved,
                   call>>
    /\ UNCHANGED <<visited, sessions, json_file>>

\* a listen action was executed in the current visit
Listened == \E i \in DOMAIN trace : Acts[trace[i]].type = "listen"

\* the statements after the for loop: the next step is chosen
resolve ==
    /\ pc = "resolve" \/ (pc = "actions" /\ ip > Len(Acts))
    /\ LET intent == input_buffer.intent
           branch == CurNode.branch
           seen == [Step1("resolve") EXCEPT !.intent = intent, !.listened = Listened]
       IN IF next_step # NONE
          THEN \* a middle action has set next_step
               /\ current_step' = next_step
               /\ pc' = "loop"
               /\ last' = [seen EXCEPT !.via = "middle", !.target = next_step]
               /\ UNCHANGED <<file, data_buffer, reason, saved>>
          ELSE IF intent # NONE /\ DHas(branch, intent)
          THEN /\ current_step' = DGet(branch, intent, NONE)
               /\ pc' = "loop"
               /\ last' = [seen EXCEPT !.via = "branch",
                                       !.target = DGet(branch, intent, NONE)]
               /\ UNCHANGED <<file, data_buffer, reason, saved>>
          ELSE IF intent # NONE
          THEN \* self.tree.get_next_node_name: ASTree1 has no such attribute
               /\ pc' = "done"
               /\ reason' = "AttributeError"
               /\ last' = [seen EXCEPT !.via = "raise"]
               /\ UNCHANGED <<file, data_buffer, current_step, saved>>
          ELSE IF DHas(branch, IntentFail)
          THEN /\ current_step' = DGet(branch, IntentFail, NONE)
               /\ pc' = "loop"
               /\ last' = [seen EXCEPT !.via = "fail",
                                       !.target = DGet(branch, IntentFail, NONE)]
               /\ UNCHANGED <<file, data_buffer, reason, saved>>
          ELSE /\ AfterLoop("NoTransition")
               /\ last' = [seen EXCEPT !.via = "break"]
               /\ UNCHANGED current_step
    /\ UNCHANGED <<script, nodes, possible_intents, input_buffer, next_step, ip,
                   emitted, visits, trace, committed, call>>
    /\ UNCHANGED <<visited, sessions, json_file>>

Next ==
    \/ load_user_data
    \/ run_start
    \/ enter_step
    \/ act_speak
    \/ act_listen
    \/ act_upgrate
    \/ act_middle
    \/ act_exit
    \/ resolve

Spec == Init /\ [][Next]_vars

-----------------------------------------------------------------------------
(* Transition resolution: claims C1 to C4 *)

\* the visit that the last step of the interpreter belongs to
LastNode == get_node(nodes, last.step)
\* the last step chose the next step, and no middle action had fixed it
Resolved == last.op = "resolve" /\ last.via # "middle"
\* the target of the first guard of the visited step that holds, or NONE
GuardTarget == FirstGuard(LastNode.ifs, data_buffer)

Reasons == {"Normal", "NoTransition", "DanglingTransitionError",
            "MissingEntryStepError"}

\* C1: when no Jump/Exit fired and a guard of the step holds under the
\* session store, the next step is the target of the first such guard,
\* whatever the captured intent and the branch map are.
C1_GuardsBeforeBranch ==
    (Resolved /\ GuardTarget # NONE) => last.target = GuardTarget

\* C2: when no guard holds and the captured intent is not a key of the branch
\* map, while the failure label is a key of it, the next step is the target
\* mapped to the failure label, for every intent value.
C2_FallbackTransition ==
    ( /\ Resolved
      /\ GuardTarget = NONE
      /\ ~DHas(LastNode.branch, last.intent)
      /\ DHas(LastNode.branch, IntentFail) )
    => last.target = DGet(LastNode.branch, IntentFail, NONE)

\* C3: a run ends with one of the four termination reasons, and no
\* exception raised by transition resolution escapes run(). Stated for the
\* sessions whose user data file exists at the end, where the closing save
\* cannot raise.
C3_TerminationReasons ==
    (pc = "done" /\ file.exists) => reason \in Reasons

\* C4: a branch-map lookup selects the next step only on an intent captured
\* by a Listen executed in the same visit of the step.
C4_IntentScopedToStep ==
    (last.op = "resolve" /\ last.via = "branch") => last.listened

-----------------------------------------------------------------------------
(* The action loop: claims C5 to C7 *)

\* the visit of last.step is over
VisitOver == last.op \in {"resolve", "exit"}
Upto(n) == [i \in 1..n |-> i]
\* the index of the first middle or exit action, the number of actions when
\* there is none
StopIndex(actions) ==
    LET stops == {i \in DOMAIN actions : actions[i].type \in {"middle", "exit"}}
    IN IF stops = {} THEN Len(actions)
       ELSE CHOOSE i \in stops : \A j \in stops : i <= j

\* C5 as claimed: in every visit all the actions of the step execute, in
\* declared order, each exactly once; a Listen is never skipped.
C5_EveryActionOnce ==
    VisitOver => trace = Upto(Len(LastNode.actions))

\* C5 as amended: the actions execute in declared order, each at most once,
\* up to and including the first Middle or Exit action of the step; the
\* actions declared after it are not executed in that visit.
C5_ActionsUpToJumpOrExit ==
    /\ trace = Upto(Len(trace))
    /\ VisitOver => Len(trace) = StopIndex(LastNode.actions)

\* a visit that ended with a Listen of the step not executed
C5_ListenSkipped ==
    /\ VisitOver
    /\ \E i \in DOMAIN LastNode.actions :
          /\ LastNode.actions[i].type = "listen"
          /\ \A j \in DOMAIN trace : trace[j] # i

\* the content of the first speak action of a node
SpeakOf(node) ==
    LET sp == {i \in DOMAIN node.actions : node.actions[i].type = "speak"}
    IN node.actions[CHOOSE i \in sp : \A j \in sp : i <= j].content
HasSpeak(node) == \E i \in DOMAIN node.actions : node.actions[i].type = "speak"

\* C6: when an Exit action executes and a step named exit exists, the Speak
\* text of that step is emitted with the store's values substituted, and the
\* session ends Normal; when the run is the single Exit action and the exit
\* step speaks "Bye", the emitted trace is exactly ["Bye"].
C6_ExitSpeaksFarewell ==
    (reason = "Normal" /\ DHas(nodes, "exit") /\ HasSpeak(get_node(nodes, "exit")))
    => /\ emitted # <<>>
       /\ emitted[Len(emitted)] = Substitute(SpeakOf(get_node(nodes, "exit")),
                                             data_buffer)
       /\ ( /\ visits = 1
            /\ LastNode.actions = <<[type |-> "exit"]>>
            /\ SpeakOf(get_node(nodes, "exit")) = <<Lit("Bye")>> )
          => emitted = << <<Lit("Bye")>> >>

\* C7: when the session ends with reason Normal, save_user_data has been
\* invoked, as it is when the session ends with NoTransition.
C7_SavedAtNormalTermination ==
    reason \in {"Normal", "NoTransition"} => saved

-----------------------------------------------------------------------------
(* Upgrade and persistence: claims C8 and C9 *)

\* the run is suspended at a Listen, or has ended
AtSuspension == pc = "done" \/ Running("listen")

\* C8 as claimed: at every suspension point and at termination the user data
\* file holds f = v for every field f an Upgrade has written with v, whether
\* the file bound f before or not.
C8_PersistedTracksUpgrades ==
    AtSuspension =>
        \A i \in DOMAIN committed :
            DGet(file.data, committed[i].k, NoneV) = committed[i].v

\* C8 as amended: the user data file holds f = v for every field f that an
\* Upgrade has written with v and that the file bound when it was written,
\* or that was written while the file was missing or empty; a field that an
\* Upgrade introduced while the file was non-empty is not in the file.
C8_PersistedTracksBoundFields ==
    \A i \in DOMAIN committed :
        IF committed[i].p
        THEN /\ file.exists
             /\ DGet(file.data, committed[i].k, NoneV) = committed[i].v
        ELSE ~DHas(file.data, committed[i].k)

\* a run has ended after an Upgrade overwrote a field the file bound and
\* another Upgrade introduced a field the file does not take
C8_BothKindsWritten ==
    /\ pc = "done"
    /\ \E i \in DOMAIN committed : committed[i].p
    /\ \E i \in DOMAIN committed : ~committed[i].p

\* C9: an Upgrade whose resolved value equals the current value of the field
\* leaves the session store unchanged and calls write_buffer_to_file zero
\* times; an Upgrade whose resolved value differs writes the store and calls
\* it exactly once.
C9_UpgradeNoOp ==
    [][ Running("upgrate") =>
          LET field == Acts[ip].field
              value == ResolveValue(Acts[ip].value, input_buffer, data_buffer)
          IN IF DGet(data_buffer, field, NoneV) = value
             THEN /\ data_buffer' = data_buffer
                  /\ file' = file
                  /\ last'.hooks = 0
             ELSE /\ data_buffer' = DSet(data_buffer, field, value)
                  /\ DGet(data_buffer', field, NoneV) = value
                  /\ last'.hooks = 1 ]_vars

\* an Upgrade of a bound field to the value it has was executed
C9_EqualValueUpgrade ==
    /\ last.op = "upgrate"
    /\ ~last.changed
    /\ last.hooks = 0
    /\ DHas(data_buffer, LastNode.actions[trace[Len(trace)]].field)

-----------------------------------------------------------------------------
(* Guard order: claim C10, on ASTNode1.get_next_node_name *)

\* the If lines a generated step is made of: conditions $name <op> literal
IfLines ==
    { IfLine(CondText("amount", ">", IntV(100)), "vipProc"),
      IfLine(CondText("name", "==", StrV(<<Lit("Li")>>)), "liProc"),
      IfLine(CondText("vip_level", ">=", IntV(2)), "levelProc"),
      IfLine(CondText("name", "<", IntV(100)), "errProc"),
      IfLine(CondText("note", "!=", IntV(1)), "noProc") }

GuardScripts ==
    { <<StepLine("welcome"), ListenLine(5, 20)>> \o g
        \o <<BranchLine("complaint", "complainProc", TRUE)>> :
        g \in SeqsUpTo(IfLines, MaxIfs) }

\* the session stores the guards are evaluated under
Contexts ==
    { <<>>,
      << [k |-> "name", v |-> StrV(<<Lit("Li")>>)], [k |-> "amount", v |-> IntV(150)] >>,
      << [k |-> "amount", v |-> IntV(50)], [k |-> "name", v |-> StrV(<<Lit("Wu")>>)] >>,
      << [k |-> "vip_level", v |-> IntV(3)], [k |-> "amount", v |-> IntV(150)] >>,
      << [k |-> "vip", v |-> IntV(1)], [k |-> "vip_level", v |-> IntV(3)],
         [k |-> "name", v |-> StrV(<<Lit("Li")>>)] >>,
      << [k |-> "vip_level", v |-> IntV(3)], [k |-> "vip", v |-> IntV(1)],
         [k |-> "name", v |-> StrV(<<Lit("Li")>>)] >> }

InitGuard ==
    /\ script \in GuardScripts
    /\ nodes = from_json_script(parse_text_script(script))
    /\ possible_intents = extract_branches(script)
    /\ file = NoFile
    /\ data_buffer \in Contexts
    /\ input_buffer = NoInput
    /\ pc = "new"
    /\ current_step = "welcome"
    /\ next_step = NONE
    /\ ip = 0
    /\ emitted = <<>>
    /\ reason = NONE
    /\ visits = 0
    /\ trace = <<>>
    /\ last = [op |-> "init", step |-> NONE, via |-> NONE, target |-> NONE,
               intent |-> NONE, listened |-> FALSE, hooks |-> 0, changed |-> FALSE]
    /\ committed = <<>>
    /\ saved = FALSE
    /\ call = NoCall
    /\ visited = <<>>
    /\ sessions = <<>>
    /\ json_file = NoJson

\* node.get_next_node_name(intention, context) on the node of current_step
call_get_next_node_name ==
    /\ pc = "new"
    /\ \E intention \in possible_intents \cup {IntentFail} :
          call' = [fn |-> "get_next_node_name", node |-> CurNode,
                   intention |-> intention, context |-> data_buffer,
                   result |-> get_next_node_name(CurNode, intention, data_buffer)]
    /\ pc' = "returned"
    /\ UNCHANGED <<script, nodes, possible_intents, file, data_buffer, input_buffer,
                   current_step, next_step, ip, emitted, reason, visits, trace,
                   last, committed, saved>>
    /\ UNCHANGED <<visited, sessions, json_file>>

NextGuard == call_get_next_node_name

SpecGuard == InitGuard /\ [][NextGuard]_vars

\* the If lines of the script, by line number, whose condition holds
TrueIfLines ==
    {i \in DOMAIN script :
        /\ script[i].d = "If"
        /\ CondHolds([condition |-> script[i].cond], data_buffer)}

\* C10: the selected target is the target of the first If line, in the
\* order of the source, whose condition holds under the current store; with
\* two guards that both hold it is the target of the first.
C10_GuardOrder ==
    (call.fn = "get_next_node_name" /\ TrueIfLines # {})
    => \E i \in TrueIfLines :
          /\ \A j \in TrueIfLines : i <= j
          /\ call.result = script[i].goto

\* two guards hold and the target of the first declared was returned
C10_TwoGuardsHold ==
    /\ call.fn = "get_next_node_name"
    /\ \E i, j \in TrueIfLines :
          /\ i < j
          /\ script[i].goto # script[j].goto
          /\ call.result = script[i].goto

-----------------------------------------------------------------------------
(* Termination and jumps: claims C11 to C14 *)

\* C11: a run that takes a transition whose target names no step ends with
\* DanglingTransitionError when the transition is taken, and no action of a
\* further step executes.
C11_DanglingTarget ==
    (last.op = "enter" /\ visits > 1 /\ ~DHas(nodes, last.step))
    => /\ pc = "done"
       /\ reason = "DanglingTransitionError"
       /\ trace = <<>>

\* C12: when the graph has no step named welcome the run ends with
\* MissingEntryStepError, no action is executed, nothing is emitted, and the
\* run neither reads nor writes the session store or the user data file.
\* Stated for the sessions whose user data file exists.
C12_MissingEntryStep ==
    (~DHas(nodes, "welcome") /\ pc = "done" /\ file.exists)
    => /\ reason = "MissingEntryStepError"
       /\ emitted = <<>>
       /\ trace = <<>>
       /\ ~saved

\* a Middle action was executed in the visit of last.step
JumpFired == \E i \in DOMAIN trace : LastNode.actions[trace[i]].type = "middle"

\* C13: when a Middle action has executed in a step, the next step is
\* middleProc whatever the session store, the guards, the branch map and the
\* captured intent are, and neither the guards nor the branch map are
\* consulted for that step.
C13_JumpFixesTarget ==
    (last.op = "resolve" /\ JumpFired)
    => /\ last.via = "middle"
       /\ last.target = "middleProc"
       /\ current_step = "middleProc"

\* a Middle action led to middleProc although the captured intent is a key
\* of the branch map with another target and a guard of the step holds
C13_JumpOverridesBranch ==
    /\ last.op = "resolve"
    /\ JumpFired
    /\ current_step = "middleProc"
    /\ DHas(LastNode.branch, last.intent)
    /\ DGet(LastNode.branch, last.intent, NONE) # "middleProc"
    /\ GuardTarget # NONE

\* C14: when no Jump/Exit fired, no guard holds, the captured intent (if
\* any) is not a key of the branch map and the failure label is not a key
\* either, the session ends with NoTransition, a normal terminal state.
\* Stated for the sessions whose user data file exists.
C14_NoTransition ==
    ( /\ Resolved
      /\ GuardTarget = NONE
      /\ ~DHas(LastNode.branch, last.intent)
      /\ ~DHas(LastNode.branch, IntentFail)
      /\ file.exists )
    => /\ pc = "done"
       /\ reason = "NoTransition"

-----------------------------------------------------------------------------
(* Listen and Speak: claims C15 to C17 *)

\* C15: at every Listen the candidate set given to the classifier is the set
\* of the branch labels of the current step (so that every non-sentinel key
\* of its branch map, quoted or not, is a possible result), and the intent
\* stored is one of these labels or the failure label.
C15_ListenCandidates ==
    last.op = "listen"
    => /\ possible_intents = DKeys(LastNode.branch) \ {IntentFail}
       /\ input_buffer.intent \in DKeys(LastNode.branch) \cup {IntentFail}

\* C16: the script Speak "Hello $name", Listen 5,20, Branch "complaint",
\* complainProc, run with name = "Li" and the classifier answering complaint,
\* emits exactly "Hello Li" and then goes to complainProc, whatever the
\* user types.
C16_HelloScenario ==
    ( /\ script = HelloScript
      /\ DGet(data_buffer, "name", NoneV) = StrV(<<Lit("Li")>>)
      /\ last.op = "resolve"
      /\ last.step = "welcome"
      /\ last.intent = "complaint" )
    => /\ emitted = << <<Lit("Hello "), Lit("Li")>> >>
       /\ current_step = "complainProc"

RECURSIVE SubstituteOnce(_, _)
\* text with every placeholder ${k} of a bound k replaced by str(buffer[k]),
\* the other placeholders left as they are
SubstituteOnce(text, buffer) ==
    IF text = <<>> THEN <<>>
    ELSE (IF Head(text).k = "ph" /\ DHas(buffer, Head(text).x)
          THEN PyStr(DGet(buffer, Head(text).x, NoneV))
          ELSE <<Head(text)>>)
         \o SubstituteOnce(Tail(text), buffer)

\* C17: the text a Speak emits is its template with every ${name} of a bound
\* name replaced by the string form of the store's value of name, and every
\* ${name} of an unbound name left as literal text.
C17_SpeakSubstitution ==
    last.op = "speak"
    => emitted[Len(emitted)]
         = SubstituteOnce(LastNode.actions[trace[Len(trace)]].content, data_buffer)

-----------------------------------------------------------------------------
(* Guard errors: claim C18, on ASTNode1.get_next_node_name *)

\* the variable names of the guard scripts
Names == {"amount", "name", "note", "vip", "vip_level"}
\* the parts of a condition $name <op> literal
CondName(cond) == CHOOSE n \in Names : DollarName(n) = SubSeq(cond, 1, Len(cond) - 2)
CondOp(cond) == cond[Len(cond) - 1].x
CondLiteral(cond) == cond[Len(cond)].v

\* the condition refers to a variable the store does not bind, or orders a
\* string against a number
Unevaluable(cond, context) ==
    \/ ~DHas(context, CondName(cond))
    \/ /\ CondOp(cond) \in {">", "<", ">=", "<="}
       /\ DGet(context, CondName(cond), NoneV).t # CondLiteral(cond).t

\* the If lines of the script, by line number, that cannot be evaluated
BadIfLines ==
    {i \in DOMAIN script :
        script[i].d = "If" /\ Unevaluable(script[i].cond, data_buffer)}

\* C18: a guard whose condition cannot be evaluated (an unbound variable, an
\* ordering of a string against a number) is treated as false: it does not
\* select its target, the remaining guards are still evaluated in declared
\* order, and the call returns a target or the result of the branch lookup.
C18_GuardErrorsSkipped ==
    (call.fn = "get_next_node_name" /\ BadIfLines # {})
    => /\ BadIfLines \cap TrueIfLines = {}
       /\ call.result =
            IF TrueIfLines = {}
            THEN DGet(call.node.branch, call.intention, NONE)
            ELSE script[CHOOSE i \in TrueIfLines : \A j \in TrueIfLines : i <= j].goto

\* a guard that cannot be evaluated is declared before a guard that holds,
\* and the target of the latter was returned
C18_ErrorThenGuard ==
    /\ call.fn = "get_next_node_name"
    /\ \E i \in BadIfLines, j \in TrueIfLines :
          /\ i < j
          /\ script[i].goto # script[j].goto
          /\ call.result = script[j].goto

-----------------------------------------------------------------------------
(* The condition grammar: claim C19, on ASTNode1.get_next_node_name *)

\* the If lines of the scripts below: a comparison $name <op> literal, the
\* constant 1, a conjunction of two comparisons, and a call expression
EvalIfLines ==
    { IfLine(CondText("amount", ">", IntV(100)), "vipProc"),
      IfLine(<<CVal(IntV(1))>>, "constProc"),
      IfLine(CondText("amount", ">", IntV(100)) \o <<CAnd>>
                \o CondText("name", "==", StrV(<<Lit("Li")>>)), "bothProc"),
      IfLine(<<CLen>> \o CondText("name", ">", IntV(1)), "lenProc") }

EvalScripts ==
    { <<StepLine("welcome"), ListenLine(5, 20)>> \o g
        \o <<BranchLine("complaint", "complainProc", TRUE)>> :
        g \in SeqsUpTo(EvalIfLines, MaxIfs) }

InitEval ==
    /\ script \in EvalScripts
    /\ nodes = from_json_script(parse_text_script(script))
    /\ possible_intents = extract_branches(script)
    /\ file = NoFile
    /\ data_buffer \in Contexts
    /\ input_buffer = NoInput
    /\ pc = "new"
    /\ current_step = "welcome"
    /\ next_step = NONE
    /\ ip = 0
    /\ emitted = <<>>
    /\ reason = NONE
    /\ visits = 0
    /\ trace = <<>>
    /\ last = [op |-> "init", step |-> NONE, via |-> NONE, target |-> NONE,
               intent |-> NONE, listened |-> FALSE, hooks |-> 0, changed |-> FALSE]
    /\ committed = <<>>
    /\ saved = FALSE
    /\ call = NoCall
    /\ visited = <<>>
    /\ sessions = <<>>
    /\ json_file = NoJson

SpecEval == InitEval /\ [][NextGuard]_vars

\* the condition has the form $name <op> literal
IsComparison(cond) ==
    /\ Len(cond) >= 3
    /\ \E n \in Names : DollarName(n) = SubSeq(cond, 1, Len(cond) - 2)
    /\ cond[Len(cond) - 1].k = "op"
    /\ cond[Len(cond) - 1].x \in {"==", "!=", ">", "<", ">=", "<="}
    /\ cond[Len(cond)].k = "val"

\* C19: a guard selects its target only if its condition is a single
\* comparison $name <op> literal; a guard with any other condition text (a
\* constant, a conjunction of comparisons, a call expression) is skipped.
C19_OnlyComparisonsSelect ==
    call.fn = "get_next_node_name"
    => \A i \in DOMAIN script :
          (script[i].d = "If" /\ ~IsComparison(script[i].cond))
          => call.result # script[i].goto

-----------------------------------------------------------------------------
(* Compiler flushing: claim C20, on parse_text_script *)

\* the lines a source text is made of
CompileLines ==
    { StepLine("welcome"),
      StepLine("exit"),
      SpeakLine(<<Quoted(<<Lit("Bye")>>)>>),
      IfLine(CondText("amount", ">", IntV(100)), "exit"),
      IfLine(<<COpen>> \o CondText("amount", ">", IntV(100)), "welcome"),
      BranchLine("complaint", "exit", TRUE),
      ExitLine,
      OtherLine }

InitCompile ==
    /\ script \in SeqsUpTo(CompileLines, MaxLines)
    /\ nodes = <<>>
    /\ possible_intents = {}
    /\ file = NoFile
    /\ data_buffer = <<>>
    /\ input_buffer = NoInput
    /\ pc = "new"
    /\ current_step = NONE
    /\ next_step = NONE
    /\ ip = 0
    /\ emitted = <<>>
    /\ reason = NONE
    /\ visits = 0
    /\ trace = <<>>
    /\ last = [op |-> "init", step |-> NONE, via |-> NONE, target |-> NONE,
               intent |-> NONE, listened |-> FALSE, hooks |-> 0, changed |-> FALSE]
    /\ committed = <<>>
    /\ saved = FALSE
    /\ call = NoCall
    /\ visited = <<>>
    /\ sessions = <<>>
    /\ json_file = NoJson

\* text_script_to_json_file and from_json_script on the source text
call_parse_text_script ==
    /\ pc = "new"
    /\ nodes' = from_json_script(parse_text_script(script))
    /\ call' = [NoCall EXCEPT !.fn = "parse_text_script", !.result = "returned"]
    /\ pc' = "compiled"
    /\ UNCHANGED <<script, possible_intents, file, data_buffer, input_buffer,
                   current_step, next_step, ip, emitted, reason, visits, trace,
                   last, committed, saved>>
    /\ UNCHANGED <<visited, sessions, json_file>>

NextCompile == call_parse_text_script

SpecCompile == InitCompile /\ [][NextCompile]_vars

\* the line numbers of the Step directives
StepLines == {i \in DOMAIN script : script[i].d = "Step"}
\* the line number of the Step directive that follows line i, or the end
BlockEnd(i) ==
    LET after == {j \in StepLines : j > i}
    IN IF after = {} THEN Len(script) + 1
       ELSE CHOOSE j \in after : \A k \in after : j <= k
\* the step made of the directives between the Step directive of line i and
\* the next Step directive: its actions and guards in source order, its
\* branch entries as a map
BlockStep(i) ==
    LET acc == parse_lines(NoSteps, SubSeq(script, i + 1, BlockEnd(i) - 1))
    IN [name |-> script[i].name, actions |-> acc.actions,
        branch |-> acc.branch, ifs |-> acc.ifs]
\* no later Step directive opens the same name
LastOfName(i) == \A j \in StepLines : script[j].name = script[i].name => j <= i

\* C20 as claimed: after compilation the graph holds, for every Step
\* directive, a step of that name made of the directives between that
\* directive and the next Step directive or the end of the input; the graph
\* holds no other step.
C20_EveryBlockCompiled ==
    call.fn = "parse_text_script"
    => /\ DKeys(nodes) = {script[i].name : i \in StepLines}
       /\ \A i \in StepLines : get_node(nodes, script[i].name) = BlockStep(i)

\* C20 as amended: the graph holds, for every step name, the step made of
\* the directives that follow the last Step directive of that name, up to
\* the next Step directive or the end of the input; the directives that
\* follow an earlier Step directive of the same name, and those before the
\* first Step directive, are in no step.
C20_LastBlockCompiled ==
    call.fn = "parse_text_script"
    => /\ DKeys(nodes) = {script[i].name : i \in StepLines}
       /\ \A i \in StepLines :
             LastOfName(i) => get_node(nodes, script[i].name) = BlockStep(i)

\* a source text was compiled that opens a step name twice with different
\* contents, has a directive before its first Step directive, and whose last
\* step ends with the input
C20_StepRedefined ==
    /\ call.fn = "parse_text_script"
    /\ script # <<>>
    /\ script[1].d \in {"Speak", "If", "Branch", "Exit"}
    /\ \E i, j \in StepLines :
          /\ i < j
          /\ script[i].name = script[j].name
          /\ BlockStep(i) # BlockStep(j)
    /\ \E i \in StepLines : BlockEnd(i) = Len(script) + 1 /\ BlockEnd(i) > i + 1

-----------------------------------------------------------------------------
(* Step redefinition: claim C21, on parse_text_script *)

\* C21: when a source text has two Step blocks of the same name, the graph
\* has exactly one step of that name, and its actions, branch map and guards
\* are those of the later block: nothing of the earlier block is in it.
C21_LastWriteWins ==
    call.fn = "parse_text_script"
    => \A i, j \in StepLines :
          (i < j /\ script[i].name = script[j].name /\ LastOfName(j))
          => /\ Cardinality({k \in DOMAIN nodes : nodes[k].k = script[j].name}) = 1
             /\ get_node(nodes, script[j].name).actions = BlockStep(j).actions
             /\ get_node(nodes, script[j].name).branch = BlockStep(j).branch
             /\ get_node(nodes, script[j].name).ifs = BlockStep(j).ifs

\* a source text was compiled whose two blocks of one name both have
\* contents, the earlier with an action, a branch entry or a guard that the
\* later has not
C21_BothBlocksFilled ==
    /\ call.fn = "parse_text_script"
    /\ \E i, j \in StepLines :
          /\ i < j
          /\ script[i].name = script[j].name
          /\ BlockStep(j).actions # <<>>
          /\ BlockStep(i).actions # <<>>
          /\ BlockStep(i).actions # BlockStep(j).actions
          /\ BlockStep(i).branch # BlockStep(j).branch

-----------------------------------------------------------------------------
(* Compilation failure: claim C22, on parse_text_script *)

\* an If line whose condition has unbalanced parentheses
Malformed(line) ==
    /\ line.d = "If"
    /\ Cardinality({j \in DOMAIN line.cond : line.cond[j].k = "("})
         # Cardinality({j \in DOMAIN line.cond : line.cond[j].k = ")"})

\* C22: compiling a source with a malformed directive, such as an If line
\* whose condition has unbalanced parentheses, fails with SyntaxError and
\* gives no step graph; a source without one compiles, its unrecognized
\* lines skipped.
C22_MalformedRejected ==
    call.fn = "parse_text_script"
    => IF \E i \in DOMAIN script : Malformed(script[i])
       THEN call.result = "SyntaxError" /\ nodes = <<>>
       ELSE call.result = "returned"

-----------------------------------------------------------------------------
(* Merge-only save: claim C24, on write_buffer_to_file and save_user_data *)

\* the item (k, v) of a dict, no item when v is None
Opt(k, v) == IF v = NoneV THEN <<>> ELSE <<[k |-> k, v |-> v]>>

\* the contents of a user data file, and of a session store, that are explored
Dicts ==
    { Opt("name", a) \o Opt("amount", b) \o Opt("note", c) :
        a \in {NoneV, StrV(<<Lit("Li")>>), StrV(<<Lit("Wu")>>)},
        b \in {NoneV, IntV(150), IntV(50)},
        c \in {NoneV, StrV(<<Lit("hi")>>)} }

InitSave ==
    /\ script = <<>>
    /\ nodes = <<>>
    /\ possible_intents = {}
    /\ file \in {NoFile} \cup {FileOf(d) : d \in Dicts}
    /\ data_buffer \in Dicts
    /\ input_buffer = NoInput
    /\ pc = "new"
    /\ current_step = NONE
    /\ next_step = NONE
    /\ ip = 0
    /\ emitted = <<>>
    /\ reason = NONE
    /\ visits = 0
    /\ trace = <<>>
    /\ last = [op |-> "init", step |-> NONE, via |-> NONE, target |-> NONE,
               intent |-> NONE, listened |-> FALSE, hooks |-> 0, changed |-> FALSE]
    /\ committed = <<>>
    /\ saved = FALSE
    /\ call = NoCall
    /\ visited = <<>>
    /\ sessions = <<>>
    /\ json_file = NoJson

\* api.write_buffer_to_file(tree, filename); call.context keeps the content
\* the file had
call_write_buffer_to_file ==
    /\ pc = "new"
    /\ file' = write_buffer_to_file(file, data_buffer)
    /\ call' = [NoCall EXCEPT !.fn = "write_buffer_to_file", !.context = file.data]
    /\ pc' = "written"
    /\ UNCHANGED <<script, nodes, possible_intents, data_buffer, input_buffer,
                   current_step, next_step, ip, emitted, reason, visits, trace,
                   last, committed, saved, visited, sessions, json_file>>

\* interpreter.save_user_data(filename)
call_save_user_data ==
    /\ pc = "new"
    /\ LET r == save_user_data(file, data_buffer)
       IN /\ file' = r.file
          /\ data_buffer' = r.buffer
          /\ reason' = IF r.ok THEN NONE ELSE "FileNotFoundError"
    /\ saved' = TRUE
    /\ call' = [NoCall EXCEPT !.fn = "save_user_data", !.context = file.data]
    /\ pc' = "saved"
    /\ UNCHANGED <<script, nodes, possible_intents, input_buffer, current_step,
                   next_step, ip, emitted, visits, trace, last, committed,
                   visited, sessions, json_file>>

NextSave ==
    \/ call_write_buffer_to_file
    \/ call_save_user_data

SpecSave == InitSave /\ [][NextSave]_vars

\* C24: a save onto an existing file that is not empty changes only fields
\* whose value in the session store differs from the stored value, to the
\* store's value; a field of the file that the store does not bind keeps its
\* value, and no field is removed from the file.
C24_MergeOnlySave ==
    [][ (file.exists /\ file.data # <<>>)
        => /\ file'.exists
           /\ \A k \in DKeys(file.data) :
                 /\ DHas(file'.data, k)
                 /\ DGet(file'.data, k, NoneV) # DGet(file.data, k, NoneV)
                    => /\ DHas(data_buffer, k)
                       /\ DGet(data_buffer, k, NoneV) # DGet(file.data, k, NoneV)
                       /\ DGet(file'.data, k, NoneV) = DGet(data_buffer, k, NoneV)
                 /\ ~DHas(data_buffer, k)
                    => DGet(file'.data, k, NoneV) = DGet(file.data, k, NoneV) ]_vars

\* a write onto a file that is not empty has changed one field, has kept a
\* field the store does not bind, and the store binds a field the file has not
C24_ChangedAndKept ==
    /\ call.fn = "write_buffer_to_file"
    /\ call.context # <<>>
    /\ \E k \in DKeys(call.context) :
          DGet(file.data, k, NoneV) # DGet(call.context, k, NoneV)
    /\ \E k \in DKeys(call.context) :
          /\ ~DHas(data_buffer, k)
          /\ DGet(file.data, k, NoneV) = DGet(call.context, k, NoneV)
    /\ \E k \in DKeys(data_buffer) : ~DHas(call.context, k)

-----------------------------------------------------------------------------
(* Upgrade value resolution: claim C25 *)

\* the value_spec is the reference $name
IsReference(spec) == spec.t = "str" /\ Len(spec.s) = 1 /\ spec.s[1].k = "dollar"

\* C25: an Upgrade stores a literal value_spec as is; $listen_content as the
\* value the most recent Listen of the session captured, the empty string
\* when no Listen has run; $v of a bound v as the store's value of v; $v of
\* an unbound v as the text "$v".
C25_UpgradeResolution ==
    [][ Running("upgrate") =>
          LET spec == Acts[ip].value
              stored == DGet(data_buffer', Acts[ip].field, NoneV)
          IN IF ~IsReference(spec) THEN stored = spec
             ELSE IF spec.s[1].x = "listen_content"
             THEN stored = (IF input_buffer.listen_content = NoneV THEN StrV(<<>>)
                            ELSE input_buffer.listen_content)
             ELSE IF DHas(data_buffer, spec.s[1].x)
             THEN stored = DGet(data_buffer, spec.s[1].x, NoneV)
             ELSE stored = StrV(<<Dollar(spec.s[1].x)>>) ]_vars

\* complainProc, a step without a Listen, has stored what the Listen of
\* welcome captured, after welcome stored the text $name for the unbound name
C25_EarlierStepValue ==
    /\ script = CopyScript
    /\ last.op = "upgrate"
    /\ last.step = "complainProc"
    /\ input_buffer.listen_content = StrV(<<Lit("hi")>>)
    /\ DGet(data_buffer, "who", NoneV) = StrV(<<Lit("hi")>>)
    /\ DGet(data_buffer, "note", NoneV) = StrV(<<Dollar("name")>>)

-----------------------------------------------------------------------------
(* Names that are prefixes of other names: claim C26 *)

\* the name a is a proper prefix of the name b
ProperPrefix(a, b) ==
    /\ Len(NameChunks(a)) < Len(NameChunks(b))
    /\ IsPrefixAt(NameChunks(b), NameChunks(a))

\* the store without the variables whose names are proper prefixes of name
WithoutPrefixes(context, name) ==
    SelectSeq(context, LAMBDA e : ~ProperPrefix(e.k, name))

\* C26: a guard $name <op> literal is evaluated on the store's value of name
\* alone: it holds in a store exactly when it holds in that store without
\* the variables whose names are proper prefixes of name, whatever the order
\* of the store's keys.
C26_PrefixIndependent ==
    call.fn = "get_next_node_name"
    => \A i \in DOMAIN call.node.ifs :
          LET cond == call.node.ifs[i]
          IN CondHolds(cond, call.context)
               = CondHolds(cond, WithoutPrefixes(call.context,
                                                 CondName(cond.condition)))

-----------------------------------------------------------------------------
(* Speak and the order of the store: claim C27 *)

\* the dicts that hold the bindings of buffer, in every insertion order
Reordered(buffer) ==
    { [i \in DOMAIN buffer |-> buffer[f[i]]] : f \in Permutations(DOMAIN buffer) }

\* C27: the text a Speak emits is the same for every insertion order of the
\* store's bindings, a stored value that contains the text ${other} being
\* emitted as it is.
C27_SpeakOrderIndependent ==
    (last.op = "speak" /\ data_buffer # <<>>)
    => \A buffer \in Reordered(data_buffer) :
          Substitute(LastNode.actions[trace[Len(trace)]].content, buffer)
            = emitted[Len(emitted)]

-----------------------------------------------------------------------------
(* Termination: claim C28 *)

\* run() is one sequential loop: a step that can be taken is taken, the
\* user's input and the classifier's answer at a Listen included
SpecLive == Init /\ [][Next]_vars /\ WF_vars(Next)

\* the steps a step can pass control to: its branch targets, its guard
\* targets, and middleProc when it has a Middle action
Succ(name) ==
    IF ~DHas(nodes, name) THEN {}
    ELSE LET node == get_node(nodes, name)
         IN {node.branch[i].v : i \in DOMAIN node.branch}
            \cup {node.ifs[i].goto : i \in DOMAIN node.ifs}
            \cup (IF \E i \in DOMAIN node.actions : node.actions[i].type = "middle"
                  THEN {"middleProc"} ELSE {})

RECURSIVE ReachIn(_, _)
\* the steps reached from the steps S by at most n further transitions
ReachIn(S, n) ==
    IF n = 0 THEN S ELSE ReachIn(S \cup UNION {Succ(x) : x \in S}, n - 1)

\* the steps reached from name by one transition or more
Reachable(name) == ReachIn(Succ(name), Len(nodes))

\* no cycle of the transition relation can be reached from welcome
Acyclic ==
    \A name \in {"welcome"} \cup Reachable("welcome") : name \notin Reachable(name)

\* C28: a run over a step graph with no cycle reachable from welcome visits
\* each step at most once and eventually reaches a terminal state.
C28_Termination ==
    /\ Acyclic => <>(pc = "done")
    /\ [](Acyclic => \A i, j \in DOMAIN visited :
                         visited[i] = visited[j] => i = j)

\* a run over a graph without cycles has ended after three steps, the last
\* of them entered through a Middle jump
C28_LongAcyclicRun ==
    /\ Acyclic
    /\ pc = "done"
    /\ visited = <<"welcome", "complainProc", "middleProc">>

-----------------------------------------------------------------------------
(* Two sessions of one script: claim C23 *)

\* the scripts the two sessions run: their welcome step has upgrate and exit
\* actions only and no branch, so that a run is its upgrate actions followed
\* by the return of Exit or by the closing save
TwoScripts ==
    { << StepLine("welcome"),
         UpgrateLine("name", <<Lit("Wu")>>),
         UpgrateLine("note", <<Dollar("name")>>) >>,
      << StepLine("welcome"),
         UpgrateLine("note", <<Lit("hi")>>),
         ExitLine >> }

\* the user data files of the first and of the second session
TwoFiles ==
    { <<f, g>> : f \in {FileOf(<< [k |-> "name", v |-> StrV(<<Lit("Li")>>)],
                                  [k |-> "amount", v |-> IntV(150)] >>)},
                 g \in {NoFile, FileOf(<<>>)} }

\* a session before ScriptInterpreter(script_path) has run
NewSession(f) ==
    [pc |-> "new", nodes |-> <<>>, data_buffer |-> <<>>, file |-> f, ip |-> 0,
     reason |-> NONE]

InitTwo ==
    /\ script \in TwoScripts
    /\ nodes = <<>>
    /\ possible_intents = {}
    /\ file = NoFile
    /\ data_buffer = <<>>
    /\ input_buffer = NoInput
    /\ pc = "new"
    /\ current_step = NONE
    /\ next_step = NONE
    /\ ip = 0
    /\ emitted = <<>>
    /\ reason = NONE
    /\ visits = 0
    /\ trace = <<>>
    /\ last = [op |-> "init", step |-> NONE, via |-> NONE, target |-> NONE,
               intent |-> NONE, listened |-> FALSE, hooks |-> 0, changed |-> FALSE]
    /\ committed = <<>>
    /\ saved = FALSE
    /\ call = NoCall
    /\ visited = <<>>
    /\ \E fs \in TwoFiles : sessions = <<NewSession(fs[1]), NewSession(fs[2])>>
    /\ json_file = NoJson

\* the variables of the single session, which the two sessions leave alone
OneSessionVars ==
    <<script, nodes, possible_intents, file, data_buffer, input_buffer, pc,
      current_step, next_step, ip, emitted, reason, visits, trace, last,
      committed, saved, call, visited>>

\* the actions of the welcome step of session i
TwoActs(i) == get_node(sessions[i].nodes, "welcome").actions

\* text_script_to_json_file, up to open(json_output_path, "w"): the JSON file
\* of the script is created or truncated
two_open(i) ==
    /\ sessions[i].pc = "new"
    /\ json_file' = [state |-> "truncated", steps |-> <<>>]
    /\ sessions' = [sessions EXCEPT ![i].pc = "dumping"]
    /\ UNCHANGED OneSessionVars

\* text_script_to_json_file, json.dump(json_script, f) and the close of f
two_dump(i) ==
    /\ sessions[i].pc = "dumping"
    /\ json_file' = [state |-> "written", steps |-> parse_text_script(script)]
    /\ sessions' = [sessions EXCEPT ![i].pc = "compiled"]
    /\ UNCHANGED OneSessionVars

\* self.tree = from_json_script(json_path): json.load raises JSONDecodeError
\* on a file that has been truncated and not yet written
two_from_json_script(i) ==
    /\ sessions[i].pc = "compiled"
    /\ sessions' = IF json_file.state = "written"
                   THEN [sessions EXCEPT ![i].pc = "built",
                                         ![i].nodes = from_json_script(json_file.steps)]
                   ELSE [sessions EXCEPT ![i].pc = "failed",
                                         ![i].reason = "JSONDecodeError"]
    /\ UNCHANGED json_file
    /\ UNCHANGED OneSessionVars

\* load_user_data(user_file) and run() up to the actions of welcome
two_load_user_data(i) ==
    /\ sessions[i].pc = "built"
    /\ DHas(sessions[i].nodes, "welcome")
    /\ sessions' = [sessions EXCEPT
          ![i].data_buffer = IF sessions[i].file.exists
                             THEN read_file_to_buffer(sessions[i].file, @)
                             ELSE @,
          ![i].pc = "actions",
          ![i].ip = 1]
    /\ UNCHANGED json_file
    /\ UNCHANGED OneSessionVars

\* action_type == "upgrate" in session i
two_upgrate(i) ==
    /\ sessions[i].pc = "actions"
    /\ sessions[i].ip <= Len(TwoActs(i))
    /\ TwoActs(i)[sessions[i].ip].type = "upgrate"
    /\ LET act == TwoActs(i)[sessions[i].ip]
           value == ResolveValue(act.value, NoInput, sessions[i].data_buffer)
           buffer == DSet(sessions[i].data_buffer, act.field, value)
       IN sessions' =
            IF DGet(sessions[i].data_buffer, act.field, NoneV) # value
            THEN [sessions EXCEPT
                    ![i].data_buffer = buffer,
                    ![i].file = write_buffer_to_file(sessions[i].file, buffer),
                    ![i].ip = @ + 1]
            ELSE [sessions EXCEPT ![i].ip = @ + 1]
    /\ UNCHANGED json_file
    /\ UNCHANGED OneSessionVars

\* action_type == "exit" in session i
two_exit(i) ==
    /\ sessions[i].pc = "actions"
    /\ sessions[i].ip <= Len(TwoActs(i))
    /\ TwoActs(i)[sessions[i].ip].type = "exit"
    /\ sessions' = [sessions EXCEPT ![i].pc = "done", ![i].reason = "Normal"]
    /\ UNCHANGED json_file
    /\ UNCHANGED OneSessionVars

\* the end of the actions in session i: no intent and no branch, the loop is
\* left and save_user_data(self.current_user_file) is called
two_save(i) ==
    /\ sessions[i].pc = "actions"
    /\ sessions[i].ip > Len(TwoActs(i))
    /\ LET r == save_user_data(sessions[i].file, sessions[i].data_buffer)
       IN sessions' = [sessions EXCEPT
             ![i].file = r.file,
             ![i].data_buffer = r.buffer,
             ![i].reason = IF r.ok THEN "NoTransition" ELSE "FileNotFoundError",
             ![i].pc = "done"]
    /\ UNCHANGED json_file
    /\ UNCHANGED OneSessionVars

NextTwo ==
    \E i \in DOMAIN sessions :
        \/ two_open(i)
        \/ two_dump(i)
        \/ two_from_json_script(i)
        \/ two_load_user_data(i)
        \/ two_upgrate(i)
        \/ two_exit(i)
        \/ two_save(i)

SpecTwo == InitTwo /\ [][NextTwo]_vars

\* C23: each of two sessions that are constructed and run concurrently on
\* one script obtains the complete compiled step graph, whatever the other
\* session does in between.
C23_SessionsIndependent ==
    \A i \in DOMAIN sessions :
        /\ sessions[i].pc # "failed"
        /\ sessions[i].pc \in {"built", "actions", "done"}
           => sessions[i].nodes = from_json_script(parse_text_script(script))

=============================================================================
